---- MODULE Spec2Model ----
(***************************************************************************)
(* Model of the prestgo driver (conn.go): one statement execution, from    *)
(* stmt.Query through the rows object's Columns and Next calls, against a  *)
(* server that answers every request with an arbitrary response.           *)
(*                                                                         *)
(* The empty string of the Go source (an absent nextUri) is the handle 0;  *)
(* the handles the server issues are 1, 2, ... and are never issued twice. *)
(***************************************************************************)
EXTENDS Integers, Sequences, FiniteSets, TLC

\* Bounds of the model -------------------------------------------------------
\* GET requests one execution may issue
MaxPolls == 2
\* rows a single page may carry
MaxRows == 2

\* Execution states (the QueryState* constants used at conn.go:283-287) ------
QueryStateQueued == "QUEUED"
QueryStatePlanning == "PLANNING"
QueryStateStarting == "STARTING"
QueryStateRunning == "RUNNING"
QueryStateFinished == "FINISHED"
QueryStateFailed == "FAILED"
QueryStateCanceled == "CANCELED"

NonTerminalStates ==
  {QueryStateQueued, QueryStatePlanning, QueryStateStarting, QueryStateRunning}
TerminalStates == {QueryStateFinished, QueryStateFailed, QueryStateCanceled}
States == NonTerminalStates \cup TerminalStates

\* Column types (the type-name constants used at conn.go:214-241), as the
\* sequences of their characters ---------------------------------------------
Row == <<"r", "o", "w">>
VarChar == <<"v", "a", "r", "c", "h", "a", "r">>
Char == <<"c", "h", "a", "r">>
JSON == <<"j", "s", "o", "n">>
BigInt == <<"b", "i", "g", "i", "n", "t">>
Integer == <<"i", "n", "t", "e", "g", "e", "r">>
Smallint == <<"s", "m", "a", "l", "l", "i", "n", "t">>
Tinyint == <<"t", "i", "n", "y", "i", "n", "t">>
Boolean == <<"b", "o", "o", "l", "e", "a", "n">>
Double == <<"d", "o", "u", "b", "l", "e">>
Real == <<"r", "e", "a", "l">>
Decimal == <<"d", "e", "c", "i", "m", "a", "l">>
Date == <<"d", "a", "t", "e">>
Time == <<"t", "i", "m", "e">>
TimeWithTimezone == Time \o <<" ", "w", "i", "t", "h", " ">> \o Time \o <<" ", "z", "o", "n", "e">>
Timestamp == Time \o <<"s", "t", "a", "m", "p">>
TimestampWithTimezone ==
  Timestamp \o <<" ", "w", "i", "t", "h", " ">> \o Time \o <<" ", "z", "o", "n", "e">>

\* strings.HasPrefix
HasPrefix(str, prefix) ==
  Len(str) >= Len(prefix) /\ SubSeq(str, 1, Len(prefix)) = prefix

\* Errors ---------------------------------------------------------------------
Err(kind, msg) == [kind |-> kind, msg |-> msg]
NoErr == Err("nil", "")
ErrNotSupported == Err("ErrNotSupported", "")
ErrQueryFailed == Err("ErrQueryFailed", "")
ErrQueryCanceled == Err("ErrQueryCanceled", "")
EOF == Err("EOF", "")
\* the error client.Do returns, and the error the JSON decoder returns
TransportErr == Err("transport", "")
DecodeErr == Err("decode", "")
\* the error payload of a response (stmtResponse.Error, queryResponse.Error)
ServerErr(msg) == Err("server", msg)
ServerMsgs == {"syntax error", "no such table"}

\* Raw (wire) and native values ----------------------------------------------
Val(k, v) == [k |-> k, v |-> v]
Nil == Val("nil", 0)
Unset == Val("unset", 0)

\* a bigIntConverter that hands the wire number on as it came
bigIntConverter_NoTruncate(val) ==
  IF val.k = "nil" THEN [val |-> Nil, err |-> NoErr]
  ELSE IF val.k = "float64" THEN [val |-> val, err |-> NoErr]
  ELSE [val |-> Nil, err |-> Err("convert", "int64")]

\* bigIntConverter: nil passes, a float64 truncates to int64, else an error
bigIntConverter(val) ==
  IF val.k = "nil" THEN [val |-> Nil, err |-> NoErr]
  ELSE IF val.k = "float64" THEN [val |-> Val("int64", val.v), err |-> NoErr]
  ELSE [val |-> Nil, err |-> Err("convert", "int64")]

\* stringConverter: nil passes, anything else becomes a string
stringConverter(val) ==
  IF val.k = "nil" THEN [val |-> Nil, err |-> NoErr]
  ELSE [val |-> Val("string", val.v), err |-> NoErr]

\* rowConverter.ConvertValue: nil passes, anything else is returned as it is
rowConverter(val) ==
  IF val.k = "nil" THEN [val |-> Nil, err |-> NoErr]
  ELSE [val |-> val, err |-> NoErr]

\* ConvertValue of the converters the columns of Schemas select
ConvertValue(conv, val) ==
  CASE conv = "bigIntConverter" -> bigIntConverter(val)
    [] conv = "stringConverter" -> stringConverter(val)
    [] conv = "rowConverter" -> rowConverter(val)

\* the switch with a decimal column read as a floating-point number
ConverterFor_DecimalAsDouble(type) ==
  IF HasPrefix(type, Row) THEN "rowConverter"
  ELSE IF HasPrefix(type, VarChar) \/ HasPrefix(type, Char) THEN "stringConverter"
  ELSE IF type = JSON THEN "stringConverter"
  ELSE IF type \in {BigInt, Integer, Smallint, Tinyint} THEN "bigIntConverter"
  ELSE IF type = Boolean THEN "boolConverter"
  ELSE IF type \in {Double, Real} THEN "doubleConverter"
  ELSE IF HasPrefix(type, Decimal) THEN "doubleConverter"
  ELSE IF type = Date THEN "dateConverter"
  ELSE IF type = Time THEN "stringConverter"
  ELSE IF type = TimeWithTimezone THEN "stringConverter"
  ELSE IF type = Timestamp THEN "timestampConverter"
  ELSE IF type = TimestampWithTimezone THEN "timestampWithTimezoneConverter"
  ELSE "stringConverter"

\* the switch of rows.fetch that picks a column's converter
ConverterFor(type) ==
  IF HasPrefix(type, Row) THEN "rowConverter"
  ELSE IF HasPrefix(type, VarChar) \/ HasPrefix(type, Char) THEN "stringConverter"
  ELSE IF type = JSON THEN "stringConverter"
  ELSE IF type \in {BigInt, Integer, Smallint, Tinyint} THEN "bigIntConverter"
  ELSE IF type = Boolean THEN "boolConverter"
  ELSE IF type \in {Double, Real} THEN "doubleConverter"
  ELSE IF HasPrefix(type, Decimal) THEN "stringConverter"
  ELSE IF type = Date THEN "dateConverter"
  ELSE IF type = Time THEN "stringConverter"
  ELSE IF type = TimeWithTimezone THEN "stringConverter"
  ELSE IF type = Timestamp THEN "timestampConverter"
  ELSE IF type = TimestampWithTimezone THEN "timestampWithTimezoneConverter"
  ELSE "stringConverter"

\* Responses -------------------------------------------------------------------
Col(name, type) == [name |-> name, type |-> type]
Schemas ==
  { <<>>,
    <<Col("x", BigInt)>>,
    <<Col("x", BigInt), Col("y", VarChar)>>,
    <<Col("x", BigInt), Col("y", BigInt)>> }

\* the values of one wire row: a number, or a number and a string
RowShapes == {1, 2}
RowVals(id, shape) ==
  IF shape = 1 THEN <<Val("float64", id)>>
  ELSE <<Val("float64", id), Val("string", id)>>

\* outcome: what the request came to before any field of the body is read
Resp(outcome, state, next, cols, nrows, shape, msg) ==
  [outcome |-> outcome, state |-> state, next |-> next, cols |-> cols,
   nrows |-> nrows, shape |-> shape, msg |-> msg]

FailedRequests ==
  { Resp(o, QueryStateQueued, FALSE, <<>>, 0, 1, "") :
      o \in {"transport", "status", "decode"} }

\* the fields the code never reads in a FAILED response are fixed
FailedResponses ==
  { Resp("ok", QueryStateFailed, FALSE, <<>>, 0, 1, m) : m \in ServerMsgs }

\* waitForData reads only the state of a CANCELED response
CanceledResponses == { Resp("ok", QueryStateCanceled, FALSE, <<>>, 0, 1, "") }

PageResponses ==
  { Resp("ok", s, n, c, k, IF k = 0 THEN 1 ELSE sh, "") :
      s \in NonTerminalStates \cup {QueryStateFinished}, n \in BOOLEAN,
      c \in Schemas, k \in 0..MaxRows, sh \in RowShapes }

PollResponses ==
  FailedRequests \cup FailedResponses \cup CanceledResponses \cup PageResponses

\* stmt.Query decodes only the state, the error and nextUri of its response
StmtResponses ==
  FailedRequests \cup FailedResponses
  \cup { Resp("ok", s, n, <<>>, 0, 1, "") :
           s \in States \ {QueryStateFailed}, n \in BOOLEAN }

VARIABLES
  pc,         \* "start", "idle" (rows returned, no call running), "fetch"
              \* (inside the loop of rows.fetch), "failed" (Query returned an
              \* error), "panic" (an index out of range stopped the program)
  caller,     \* the method that called fetch: "Columns", "Next" or "none"
  nextURI, fetched, rowindex, columns, types, data,   \* the fields of rows
  dest,       \* the buffer the caller passed to the running or last Next
  ret,        \* what the last call returned to the caller
  polls,      \* the handles of the GET requests issued so far, in order
  issued,     \* the number of handles the server has issued
  served,     \* the ids of the rows the server has returned, in order
  delivered,  \* the ids of the rows Next has delivered, in order
  last,       \* the most recent response, as the code saw it
  seen,       \* what the responses so far have shown
  declared    \* the declared types of the columns the schema was bound from

vars ==
  <<pc, caller, nextURI, fetched, rowindex, columns, types, data, dest, ret,
    polls, issued, served, delivered, last, seen, declared>>

rowsVars == <<nextURI, fetched, rowindex, columns, types, data>>

Ret(op, err, cols) == [op |-> op, err |-> err, cols |-> cols]

NoLast == [outcome |-> "none", state |-> "", next |-> 0, hasData |-> FALSE,
           ncols |-> 0, msg |-> ""]

\* the handle a response carries: a fresh one, or none
Handle(resp) == IF resp.next THEN issued + 1 ELSE 0

Seen(resp, poll) ==
  IF resp.outcome # "ok" THEN seen
  ELSE [stmtFailed |-> seen.stmtFailed \/ (~poll /\ resp.state = QueryStateFailed),
        terminal |-> seen.terminal \/ resp.state \in TerminalStates,
        ready |-> seen.ready \/ resp.nrows > 0 \/ resp.state = QueryStateFinished,
        notReady |-> seen.notReady
                       \/ (poll /\ resp.state \in NonTerminalStates /\ resp.nrows = 0)]

Last(resp) ==
  [outcome |-> resp.outcome,
   state |-> IF resp.outcome = "ok" THEN resp.state ELSE "",
   next |-> IF resp.outcome = "ok" THEN Handle(resp) ELSE 0,
   hasData |-> resp.outcome = "ok" /\ resp.nrows > 0,
   ncols |-> IF resp.outcome = "ok" THEN Len(resp.cols) ELSE 0,
   msg |-> resp.msg]

\* the page of a response: its rows, numbered on from the rows served so far
Page(resp) ==
  [i \in 1..resp.nrows |->
     [id |-> Len(served) + i, vals |-> RowVals(Len(served) + i, resp.shape)]]

Init ==
  /\ pc = "start"
  /\ caller = "none"
  /\ nextURI = 0
  /\ fetched = FALSE
  /\ rowindex = 0
  /\ columns = <<>>
  /\ types = <<>>
  /\ data = <<>>
  /\ dest = <<>>
  /\ ret = Ret("none", NoErr, <<>>)
  /\ polls = <<>>
  /\ issued = 0
  /\ served = <<>>
  /\ delivered = <<>>
  /\ last = NoLast
  /\ seen = [stmtFailed |-> FALSE, terminal |-> FALSE, ready |-> FALSE, notReady |-> FALSE]
  /\ declared = <<>>

\* waitForData taking a request that failed in transport for a not-ready answer
waitForData_RetryOnError(resp) ==
  IF resp.outcome = "transport"
    THEN [gotData |-> FALSE, err |-> NoErr, nextURI |-> nextURI]
  ELSE IF resp.outcome = "status"
    THEN [gotData |-> FALSE, err |-> ErrQueryFailed, nextURI |-> nextURI]
  ELSE IF resp.outcome = "decode"
    THEN [gotData |-> FALSE, err |-> DecodeErr, nextURI |-> nextURI]
  ELSE IF resp.state = QueryStateFailed
    THEN [gotData |-> FALSE, err |-> ServerErr(resp.msg), nextURI |-> nextURI]
  ELSE IF resp.state = QueryStateCanceled
    THEN [gotData |-> FALSE, err |-> ErrQueryCanceled, nextURI |-> nextURI]
  ELSE IF resp.state \in NonTerminalStates /\ resp.nrows = 0
    THEN [gotData |-> FALSE, err |-> NoErr, nextURI |-> Handle(resp)]
  ELSE [gotData |-> TRUE, err |-> NoErr, nextURI |-> nextURI]

\* waitForData with a FAILED response reported as the generic failure
waitForData_Generic(resp) ==
  IF resp.outcome = "transport"
    THEN [gotData |-> FALSE, err |-> TransportErr, nextURI |-> nextURI]
  ELSE IF resp.outcome = "status"
    THEN [gotData |-> FALSE, err |-> ErrQueryFailed, nextURI |-> nextURI]
  ELSE IF resp.outcome = "decode"
    THEN [gotData |-> FALSE, err |-> DecodeErr, nextURI |-> nextURI]
  ELSE IF resp.state \in {QueryStateFailed, QueryStateCanceled}
    THEN [gotData |-> FALSE, err |-> ErrQueryFailed, nextURI |-> nextURI]
  ELSE IF resp.state \in NonTerminalStates /\ resp.nrows = 0
    THEN [gotData |-> FALSE, err |-> NoErr, nextURI |-> Handle(resp)]
  ELSE [gotData |-> TRUE, err |-> NoErr, nextURI |-> nextURI]

\* rows.waitForData: one GET of r.nextURI and the reading of its response.
\* nextURI is the value of r.nextURI when it returns.
waitForData(resp) ==
  IF resp.outcome = "transport"
    THEN [gotData |-> FALSE, err |-> TransportErr, nextURI |-> nextURI]
  ELSE IF resp.outcome = "status"
    THEN [gotData |-> FALSE, err |-> ErrQueryFailed, nextURI |-> nextURI]
  ELSE IF resp.outcome = "decode"
    THEN [gotData |-> FALSE, err |-> DecodeErr, nextURI |-> nextURI]
  ELSE IF resp.state = QueryStateFailed
    THEN [gotData |-> FALSE, err |-> ServerErr(resp.msg), nextURI |-> nextURI]
  ELSE IF resp.state = QueryStateCanceled
    THEN [gotData |-> FALSE, err |-> ErrQueryCanceled, nextURI |-> nextURI]
  ELSE IF resp.state \in NonTerminalStates /\ resp.nrows = 0
    THEN [gotData |-> FALSE, err |-> NoErr, nextURI |-> Handle(resp)]
  ELSE [gotData |-> TRUE, err |-> NoErr, nextURI |-> nextURI]

\* the schema rows.fetch binds on its first page
BindColumns(cols) == [i \in 1..Len(cols) |-> cols[i].name]
BindTypes(cols) == [i \in 1..Len(cols) |-> ConverterFor(cols[i].type)]

\* the schema rebuilt from every page
BoundColumns_Rebind(resp) == BindColumns(resp.cols)

\* the converters rebuilt from every page
BoundTypes_Rebind(resp) == BindTypes(resp.cols)

\* the columns and converters of rows after the "if !r.fetched" of rows.fetch
BoundColumns(resp) == IF ~fetched THEN BindColumns(resp.cols) ELSE columns
BoundTypes(resp) == IF ~fetched THEN BindTypes(resp.cols) ELSE types

\* a fetch that never reports an empty page
FetchResult_NoEOF(page) == NoErr

\* what rows.fetch returns once a page is stored: io.EOF for an empty page
FetchResult(page) == IF Len(page) = 0 THEN EOF ELSE NoErr

\* the conversion loop of rows.Next over the converters tys, from column i on
RECURSIVE ConvertFrom(_, _, _, _)
ConvertFrom(i, tys, row, dst) ==
  IF i > Len(tys) THEN [status |-> "ok", dest |-> dst, err |-> NoErr]
  ELSE IF i > Len(row.vals) THEN [status |-> "panic", dest |-> dst, err |-> NoErr]
  ELSE LET c == ConvertValue(tys[i], row.vals[i]) IN
    IF c.err # NoErr THEN [status |-> "err", dest |-> dst, err |-> c.err]
    ELSE IF i > Len(dst) THEN [status |-> "panic", dest |-> dst, err |-> NoErr]
    ELSE ConvertFrom(i + 1, tys, row, [dst EXCEPT ![i] = c.val])

\* a cursor that steps over a row
Advance_Skip(idx) == idx + 2

\* the index rows.Next leaves in r.rowindex after the row at idx converted
Advance(idx) == idx + 1

\* The part of rows.Next after its fetch: convert the row at idx (counted
\* from 0, as r.rowindex) into dst, advance the cursor, return.
ConvertRow(tys, dat, idx, dst) ==
  /\ IF idx + 1 > Len(dat)
       THEN /\ pc' = "panic"
            /\ dest' = dst
            /\ rowindex' = idx
            /\ UNCHANGED <<ret, delivered>>
       ELSE LET r == ConvertFrom(1, tys, dat[idx + 1], dst) IN
            /\ dest' = r.dest
            /\ IF r.status = "panic"
                 THEN /\ pc' = "panic"
                      /\ rowindex' = idx
                      /\ UNCHANGED <<ret, delivered>>
               ELSE IF r.status = "err"
                 THEN /\ pc' = "idle"
                      /\ rowindex' = idx
                      /\ ret' = Ret("Next", r.err, <<>>)
                      /\ UNCHANGED delivered
               ELSE /\ pc' = "idle"
                    /\ rowindex' = Advance(idx)
                    /\ ret' = Ret("Next", NoErr, <<>>)
                    /\ delivered' = Append(delivered, dat[idx + 1].id)
  /\ caller' = "none"

\* the buffer a caller passes to Next
NewDest == <<Unset, Unset>>

\* stmt.Query without its test of the FAILED state
QueryResult_IgnoreFailed(resp) ==
  IF resp.outcome = "transport" THEN TransportErr
  ELSE IF resp.outcome = "status" THEN ErrQueryFailed
  ELSE IF resp.outcome = "decode" THEN DecodeErr
  ELSE NoErr

\* the error stmt.Query returns on its response, NoErr when it returns rows
QueryResult(resp) ==
  IF resp.outcome = "transport" THEN TransportErr
  ELSE IF resp.outcome = "status" THEN ErrQueryFailed
  ELSE IF resp.outcome = "decode" THEN DecodeErr
  ELSE IF resp.state = "FAILED" THEN ServerErr(resp.msg)
  ELSE NoErr

\* stmt.Query
Query(args, resp) ==
  /\ pc = "start"
  /\ UNCHANGED <<caller, fetched, rowindex, columns, types, data, dest,
                 polls, served, delivered, declared>>
  /\ IF args > 0
       THEN /\ ret' = Ret("Query", ErrNotSupported, <<>>)
            /\ pc' = "failed"
            /\ UNCHANGED <<nextURI, issued, last, seen>>
       ELSE /\ last' = Last(resp)
            /\ seen' = Seen(resp, FALSE)
            /\ ret' = Ret("Query", QueryResult(resp), <<>>)
            /\ IF QueryResult(resp) # NoErr
                 THEN /\ pc' = "failed"
                      /\ UNCHANGED <<nextURI, issued>>
                 ELSE /\ pc' = "idle"
                      /\ nextURI' = Handle(resp)
                      /\ issued' = IF resp.next THEN issued + 1 ELSE issued

\* rows.Columns, up to its return or its entry into fetch
Columns ==
  /\ pc = "idle"
  /\ UNCHANGED <<rowsVars, dest, polls, issued, served, delivered, last, seen,
                 declared>>
  /\ IF ~fetched
       THEN /\ pc' = "fetch"
            /\ caller' = "Columns"
            /\ UNCHANGED ret
       ELSE /\ ret' = Ret("Columns", NoErr, columns)
            /\ UNCHANGED <<pc, caller>>

\* a Next that fetches only once the cursor is beyond the page
NeedsFetch_OffByOne == ~fetched \/ rowindex > Len(data)

\* the test rows.Next makes before it reads a row: nothing fetched yet, or
\* the cursor at the end of the buffered page
NeedsFetch == ~fetched \/ rowindex >= Len(data)

\* rows.Next, up to its return or its entry into fetch
RowsNext ==
  /\ pc = "idle"
  /\ UNCHANGED <<nextURI, fetched, columns, types, data, polls, issued, served,
                 last, seen, declared>>
  /\ IF NeedsFetch
       THEN IF nextURI = 0
              THEN /\ ret' = Ret("Next", EOF, <<>>)
                   /\ dest' = NewDest
                   /\ UNCHANGED <<pc, caller, rowindex, delivered>>
              ELSE /\ pc' = "fetch"
                   /\ caller' = "Next"
                   /\ dest' = NewDest
                   /\ UNCHANGED <<ret, rowindex, delivered>>
       ELSE ConvertRow(types, data, rowindex, NewDest)

\* One turn of the loop of rows.fetch: a call of waitForData, then either the
\* sleep before the next turn or the return into the caller, run to its end.
\* The GET goes to r.nextURI whatever it holds; for the empty string
\* http.NewRequest succeeds and client.Do returns an error (net/http sends no
\* request whose URL has no scheme), so that poll can only fail in transport.
fetch(resp) ==
  /\ pc = "fetch"
  /\ Len(polls) < MaxPolls
  /\ nextURI = 0 => resp.outcome = "transport"
  /\ polls' = Append(polls, nextURI)
  /\ last' = Last(resp)
  /\ seen' = Seen(resp, TRUE)
  /\ issued' = IF resp.outcome = "ok" /\ resp.next THEN issued + 1 ELSE issued
  /\ LET w == waitForData(resp) IN
     IF w.err # NoErr
       THEN /\ UNCHANGED <<rowsVars, dest, served, delivered, declared>>
            /\ pc' = "idle"
            /\ caller' = "none"
            /\ ret' = IF caller = "Columns" THEN Ret("Columns", NoErr, <<>>)
                      ELSE Ret("Next", w.err, <<>>)
     ELSE IF ~w.gotData
       THEN /\ nextURI' = w.nextURI
            /\ UNCHANGED <<pc, caller, fetched, rowindex, columns, types, data,
                           dest, ret, served, delivered, declared>>
     ELSE LET page == Page(resp)
              cols == BoundColumns(resp)
              tys == BoundTypes(resp)
          IN
          /\ data' = page
          /\ nextURI' = Handle(resp)
          /\ columns' = cols
          /\ types' = tys
          /\ declared' = IF ~fetched THEN [i \in 1..Len(resp.cols) |-> resp.cols[i].type]
                          ELSE declared
          /\ fetched' = TRUE
          /\ served' = served \o [i \in 1..Len(page) |-> page[i].id]
          /\ IF FetchResult(page) # NoErr
               THEN /\ rowindex' = 0
                    /\ pc' = "idle"
                    /\ caller' = "none"
                    /\ ret' = IF caller = "Columns" THEN Ret("Columns", NoErr, <<>>)
                              ELSE Ret("Next", FetchResult(page), <<>>)
                    /\ UNCHANGED <<dest, delivered>>
             ELSE IF caller = "Columns"
               THEN /\ rowindex' = 0
                    /\ pc' = "idle"
                    /\ caller' = "none"
                    /\ ret' = Ret("Columns", NoErr, cols)
                    /\ UNCHANGED <<dest, delivered>>
             ELSE ConvertRow(tys, page, 0, dest)

Next ==
  \/ \E args \in {0, 1}, resp \in StmtResponses : Query(args, resp)
  \/ Columns
  \/ RowsNext
  \/ \E resp \in PollResponses : fetch(resp)

Spec == Init /\ [][Next]_vars

\* The polling loop against a server that answers in the end ----------------------
\* a not-ready response: decoded, a non-terminal state, no data
NotReady(resp) ==
  resp.outcome = "ok" /\ resp.state \in NonTerminalStates /\ resp.nrows = 0

\* a turn of the loop of rows.fetch; the server does not answer the last
\* request the bound allows with a not-ready response
fetchAnswered(resp) ==
  /\ Len(polls) = MaxPolls - 1 => ~NotReady(resp)
  /\ fetch(resp)

NextLive ==
  \/ \E args \in {0, 1}, resp \in StmtResponses : Query(args, resp)
  \/ Columns
  \/ RowsNext
  \/ \E resp \in PollResponses : fetchAnswered(resp)

\* The loop of rows.fetch is a sequential for loop: once entered, its next
\* turn is taken as soon as the request of the turn is answered.
SpecLive ==
  /\ Init
  /\ [][NextLive]_vars
  /\ WF_vars(\E resp \in PollResponses : fetchAnswered(resp))

\* Schema binding over the type names ------------------------------------------
\* columns a schema of this part may have
MaxCols == 1

\* what may follow a type name: nothing, parameters, or one more letter
Suffixes == { <<>>, <<"(", "1", "0", ",", "2", ")">>, <<"x">> }

BaseNames ==
  {Row, VarChar, Char, JSON, BigInt, Integer, Smallint, Tinyint, Boolean,
   Double, Real, Decimal, Date, Time, TimeWithTimezone, Timestamp,
   TimestampWithTimezone}

\* the declared types: every name with every suffix, the empty name, a name
\* the switch does not know and the beginnings of two prefixes
TypeNames ==
  { b \o x : b \in BaseNames, x \in Suffixes }
  \cup { <<>>, <<"u", "u", "i", "d">>, <<"r", "o">>, <<"d", "e", "c">> }

ColNames == <<"x", "y", "z">>

TypedSchemas ==
  UNION { { [i \in 1..n |-> Col(ColNames[i], f[i])] : f \in [1..n -> TypeNames] } :
            n \in 1..MaxCols }

\* the final page of a query without rows, its schema of any declared types
TypedResponses ==
  { Resp("ok", QueryStateFinished, FALSE, c, 0, 1, "") : c \in TypedSchemas }

\* a rows object as stmt.Query returns it for a QUEUED response with a handle
InitRows ==
  /\ pc = "idle"
  /\ caller = "none"
  /\ nextURI = 1
  /\ fetched = FALSE
  /\ rowindex = 0
  /\ columns = <<>>
  /\ types = <<>>
  /\ data = <<>>
  /\ dest = <<>>
  /\ ret = Ret("Query", NoErr, <<>>)
  /\ polls = <<>>
  /\ issued = 1
  /\ served = <<>>
  /\ delivered = <<>>
  /\ last = [NoLast EXCEPT !.outcome = "ok", !.state = QueryStateQueued, !.next = 1]
  /\ seen = [stmtFailed |-> FALSE, terminal |-> FALSE, ready |-> FALSE, notReady |-> FALSE]
  /\ declared = <<>>

NextBind ==
  \/ Columns
  \/ RowsNext
  \/ \E resp \in TypedResponses : fetch(resp)

SpecBind == InitRows /\ [][NextBind]_vars

TypeOK ==
  /\ pc \in {"start", "idle", "fetch", "failed", "panic"}
  /\ caller \in {"none", "Columns", "Next"}
  /\ nextURI \in 0..issued
  /\ fetched \in BOOLEAN
  /\ rowindex \in 0..MaxRows
  /\ Len(columns) = Len(types)
  /\ Len(polls) <= MaxPolls

\* Properties ------------------------------------------------------------------

\* the most recent response was decoded and is a not-ready one
LastNotReady ==
  last.outcome = "ok" /\ last.state \in NonTerminalStates /\ ~last.hasData

\* Next has just returned end-of-stream
NextReturnedEOF == pc = "idle" /\ ret = Ret("Next", EOF, <<>>)

\* the ids of the rows of the buffered page from the cursor on
Pending ==
  [i \in 1..(IF rowindex < Len(data) THEN Len(data) - rowindex ELSE 0) |->
     data[rowindex + i].id]

\* C1: while the poll responses are not-ready ones (non-terminal state, no
\* data), fetch stays in its loop and polls next at the handle of the most
\* recent response, and until a response carries data or has state FINISHED
\* the caller has been given no page, no schema and no end-of-stream.
C1_NothingSurfacedUntilReady ==
  /\ (pc = "fetch" /\ LastNotReady) => nextURI = last.next
  /\ (seen.notReady /\ ~seen.ready) =>
       /\ ~fetched
       /\ delivered = <<>>
       /\ ret.cols = <<>>
       /\ ~(ret.op = "Next" /\ ret.err \in {NoErr, EOF})

\* C2: once a response has reported a terminal state, no further poll request
\* is issued (a GET of the empty handle, which never leaves the client, is not
\* counted).
C2_NoPollAfterTerminal ==
  [][seen.terminal => (polls' = polls \/ nextURI = 0)]_vars

\* C3: no continuation handle is requested more than once (the empty string
\* is the absence of a handle).
C3_HandleUsedOnce ==
  \A i, j \in 1..Len(polls) : (polls[i] # 0 /\ polls[i] = polls[j]) => i = j

\* C4: whenever Next returns end-of-stream, the stored next handle is empty.
C4_EOFOnlyWithoutHandle == NextReturnedEOF => nextURI = 0

\* C5: the rows Next has delivered are the rows the server has returned, in
\* the server's order, less exactly the rows of the buffered page still ahead
\* of the cursor; at end-of-stream every row the server returned has been
\* delivered, once.
C5_RowsInOrder ==
  /\ delivered \o Pending = served
  /\ served = [i \in 1..Len(served) |-> i]
  /\ NextReturnedEOF => delivered = served

\* C5 witness: end-of-stream after two full pages, every row delivered
C5_Witness ==
  NextReturnedEOF /\ Len(polls) = 2 /\ Len(delivered) = 2 * MaxRows

\* C6: column names and converters are bound at most once: empty until the
\* schema is bound, and once bound they never change, whatever columns a later
\* page carries.
C6_SchemaBoundOnce ==
  [][/\ ~fetched => (columns = <<>> /\ types = <<>>)
     /\ fetched => (fetched' /\ columns' = columns /\ types' = types)]_vars

\* C6 witness: a one-column schema is bound and the latest page, a later one,
\* carried two columns
C6_Witness ==
  /\ fetched
  /\ Len(polls) = 2
  /\ Len(columns) = 1
  /\ last.ncols = 2
  /\ last.hasData

\* C7: the schema is bound only from a response that carries a non-empty
\* columns field, and never from a not-ready response.
C7_BoundFromColumns ==
  [][(~fetched /\ fetched') => (last'.ncols > 0 /\ ~LastNotReady')]_vars

\* C8: when the response to the submission has state FAILED, Query returns the
\* server-reported error and no rows object, and no poll request is issued.
C8_FailedSubmission ==
  seen.stmtFailed =>
    /\ pc = "failed"
    /\ ret = Ret("Query", ServerErr(last.msg), <<>>)
    /\ polls = <<>>
    /\ nextURI = 0

\* C8 witness: the submission was answered FAILED, "syntax error"
C8_Witness ==
  seen.stmtFailed /\ last.msg = "syntax error" /\ ret.err = ServerErr("syntax error")

\* C9: a poll made for Next whose response has state FAILED makes Next return
\* the server-reported error, one whose response has state CANCELED makes it
\* return ErrQueryCanceled, and neither is end-of-stream or the other.
C9_FailedAndCanceled ==
  [][(pc = "fetch" /\ caller = "Next" /\ polls' # polls /\ last'.outcome = "ok") =>
       /\ last'.state = QueryStateFailed =>
            (pc' = "idle" /\ ret' = Ret("Next", ServerErr(last'.msg), <<>>))
       /\ last'.state = QueryStateCanceled =>
            (pc' = "idle" /\ ret' = Ret("Next", ErrQueryCanceled, <<>>))
       /\ last'.state \in {QueryStateFailed, QueryStateCanceled} =>
            ret'.err \notin {EOF, NoErr, ErrQueryFailed}
       /\ pc' = "idle" =>
            /\ ret'.err = ErrQueryCanceled <=> last'.state = QueryStateCanceled
            /\ ret'.err.kind = "server" <=> last'.state = QueryStateFailed]_vars

\* C9 witness: Next has returned the error of a FAILED poll response
C9_Witness ==
  /\ pc = "idle"
  /\ polls # <<>>
  /\ last.outcome = "ok"
  /\ last.state = QueryStateFailed
  /\ ret = Ret("Next", ServerErr("no such table"), <<>>)

\* C10: every request that does not produce a success response, the
\* submission and every poll, fails with ErrQueryFailed.
C10_RequestFailureIsQueryFailed ==
  [][((pc = "start" \/ (pc = "fetch" /\ caller = "Next"))
      /\ last'.outcome \in {"transport", "status"}) =>
       (pc' \in {"failed", "idle"} /\ ret'.err = ErrQueryFailed)]_vars

\* the most recent response is a poll's: FINISHED, no data, no next handle
LastFinalEmpty ==
  /\ polls # <<>>
  /\ last.outcome = "ok"
  /\ last.state = QueryStateFinished
  /\ ~last.hasData
  /\ last.next = 0

\* C11: a FINISHED response with an empty data page and no next handle ends
\* the stream cleanly: the Next that polled returns end-of-stream (it neither
\* fails nor stays in the loop as after a not-ready poll), it writes nothing
\* into the caller's buffer and delivers no row, and so does every Next after
\* it, without a further poll.
C11_CleanEndOfStream ==
  [][/\ (pc = "fetch" /\ caller = "Next" /\ polls' # polls /\ LastFinalEmpty') =>
          /\ pc' = "idle"
          /\ ret' = Ret("Next", EOF, <<>>)
          /\ dest' = NewDest
          /\ delivered' = delivered
     /\ (pc = "idle" /\ LastFinalEmpty) =>
          /\ pc' = "idle"
          /\ polls' = polls
          /\ delivered' = delivered
          /\ ret'.op = "Next" => (ret' = Ret("Next", EOF, <<>>) /\ dest' = NewDest)]_vars

\* C11 witness: Next has returned end-of-stream on such a response, no row
\* delivered before or after
C11_Witness ==
  LastFinalEmpty /\ NextReturnedEOF /\ delivered = <<>> /\ dest = NewDest

\* the value the claims expect of a converter for a wire value
Native(conv, val) ==
  IF conv = "bigIntConverter" THEN Val("int64", val.v) ELSE Val("string", val.v)

\* the buffered page fits the bound schema: every row has one value for each
\* column, a number for an integer column
PageFitsSchema ==
  \A i \in 1..Len(data) :
    /\ Len(data[i].vals) = Len(types)
    /\ \A j \in 1..Len(types) :
         types[j] = "bigIntConverter" => data[i].vals[j].k = "float64"

\* the single poll, of the handle the submission gave, was answered FINISHED
\* with a schema, rows that fit it and no next handle
ScenarioA ==
  /\ Len(polls) = 1
  /\ polls[1] # 0
  /\ last.outcome = "ok"
  /\ last.state = QueryStateFinished
  /\ last.hasData
  /\ last.ncols > 0
  /\ last.next = 0
  /\ PageFitsSchema

\* C12: after the submission gave a handle and its single poll returned
\* FINISHED with a schema, k >= 1 rows and no next handle, the Next calls
\* deliver those k rows in order, each value converted by its column's
\* converter (an integer column's number as an int64), then end-of-stream,
\* and no second poll is issued.
C12_ScenarioA ==
  ScenarioA =>
    /\ pc = "idle"
    /\ Len(data) >= 1
    /\ served = [i \in 1..Len(data) |-> data[i].id]
    /\ rowindex = Len(delivered)
    /\ delivered = [i \in 1..rowindex |-> data[i].id]
    /\ ret.op = "Next" => ret.err \in {NoErr, EOF}
    /\ ret = Ret("Next", NoErr, <<>>) =>
         /\ rowindex >= 1
         /\ \A j \in 1..Len(types) :
              dest[j] = Native(types[j], data[rowindex].vals[j])
    /\ ret = Ret("Next", EOF, <<>>) => rowindex = Len(data)

\* C12 witness: end-of-stream after the rows of the one page, an integer
\* column among them
C12_Witness ==
  /\ ScenarioA
  /\ NextReturnedEOF
  /\ types = <<"bigIntConverter">>
  /\ delivered = served
  /\ Len(delivered) >= 1

\* C12 witness of a delivery: the first row, the number 1, arrived as int64 1
C12_Delivered ==
  /\ ScenarioA
  /\ ret = Ret("Next", NoErr, <<>>)
  /\ delivered = <<1>>
  /\ dest[1] = Val("int64", 1)

\* C13: Columns returns the bound column names whenever a schema is bound
\* when it returns; it returns an empty list only when the fetch it triggered
\* failed with an error, end-of-stream not being one.
C13_ColumnsReturnsBound ==
  (pc = "idle" /\ ret.op = "Columns" /\ fetched) => ret.cols = columns

\* the positions of the caller's buffer that hold a value
Written == {j \in 1..Len(dest) : dest[j] # Unset}

\* C14: there are as many bound converters as bound column names, and a Next
\* that delivered a row wrote exactly that many values into the buffer.
C14_ColumnCount ==
  /\ Len(types) = Len(columns)
  /\ (pc = "idle" /\ ret = Ret("Next", NoErr, <<>>)) =>
       Written = 1..Len(columns)

\* C14 witness: a row of a two-column schema delivered with two values
C14_Witness ==
  /\ pc = "idle"
  /\ ret = Ret("Next", NoErr, <<>>)
  /\ Len(columns) = 2
  /\ Len(types) = 2
  /\ Written = {1, 2}

\* C15: when the conversion of a value of the current row fails, Next
\* returns the conversion error and the caller's buffer holds no value
\* converted from that row.
C15_NoPartialRow ==
  (pc = "idle" /\ ret.op = "Next" /\ ret.err.kind = "convert") => dest = NewDest

\* the rules of converter selection, in the order they are tried; a rule
\* matches a type by prefix or by equality with one of its names
Rule(prefix, names, conv) == [prefix |-> prefix, names |-> names, conv |-> conv]
Rules ==
  << Rule(TRUE, {Row}, "rowConverter"),
     Rule(TRUE, {VarChar, Char}, "stringConverter"),
     Rule(FALSE, {JSON}, "stringConverter"),
     Rule(FALSE, {BigInt, Integer, Smallint, Tinyint}, "bigIntConverter"),
     Rule(FALSE, {Boolean}, "boolConverter"),
     Rule(FALSE, {Double, Real}, "doubleConverter"),
     Rule(TRUE, {Decimal}, "stringConverter"),
     Rule(FALSE, {Date}, "dateConverter"),
     Rule(FALSE, {Time, TimeWithTimezone}, "stringConverter"),
     Rule(FALSE, {Timestamp}, "timestampConverter"),
     Rule(FALSE, {TimestampWithTimezone}, "timestampWithTimezoneConverter") >>

Matches(rule, type) ==
  \E n \in rule.names : IF rule.prefix THEN HasPrefix(type, n) ELSE type = n

\* the converter of the first rule that matches, the string converter if none
FirstRule(type) ==
  LET hits == {i \in 1..Len(Rules) : Matches(Rules[i], type)} IN
  IF hits = {} THEN "stringConverter"
  ELSE Rules[CHOOSE i \in hits : \A k \in hits : i <= k].conv

C17_FetchReturns ==
  /\ [][(pc = "fetch" /\ polls' # polls) =>
          (pc' = "fetch" <=> LastNotReady')]_vars
  /\ (pc = "fetch" /\ Len(polls) < MaxPolls) ~> (pc # "fetch")

\* C17 witness: a fetch whose first poll was answered not-ready has returned
\* on the answer to its second
C17_Witness ==
  /\ pc = "idle"
  /\ Len(polls) = 2
  /\ seen.notReady
  /\ ~LastNotReady
  /\ ret.op \in {"Columns", "Next"}

\* C18: end-of-stream is absorbing: while the last call to have returned is a
\* Next that returned end-of-stream, no Next call is in the polling loop
\* (a later Next returns end-of-stream again without a request).
C18_EndOfStreamAbsorbing ==
  ret = Ret("Next", EOF, <<>>) => ~(pc = "fetch" /\ caller = "Next")

\* C19: no GET request is issued while the stored handle is empty.
C19_NoPollOfEmptyHandle == \A i \in 1..Len(polls) : polls[i] # 0

\* C20: the cursor stays within 0..len(data), and Next reads the row at the
\* cursor only when the cursor is below len(data): it never stops on an index
\* beyond the buffered page, and every row it has converted lies in the page.
C20_CursorInPage ==
  /\ 0 <= rowindex
  /\ rowindex <= Len(data)
  /\ pc = "panic" => rowindex < Len(data)
  /\ (pc = "idle" /\ ret.op = "Next" /\ ret.err.kind \in {"nil", "convert"}) =>
       /\ Len(data) >= 1
       /\ ret.err = NoErr => rowindex \in 1..Len(data)
       /\ ret.err # NoErr => rowindex \in 0..(Len(data) - 1)

\* C20 witness: Next has read the last row of a page of MaxRows rows and left
\* the cursor at the end of the page
C20_Witness ==
  /\ pc = "idle"
  /\ ret = Ret("Next", NoErr, <<>>)
  /\ Len(data) = MaxRows
  /\ rowindex = Len(data)

====
